---- MODULE Spec2Model ----
(***************************************************************************)
(* Interrupt-driven frequency generators for the ADuC841 (8051 core).      *)
(*                                                                         *)
(*   Variant A  fixed-count event flag        (part_000, lines 1-60)       *)
(*   Variant B  modulo-256 phase accumulator  (part_000, lines 62-185)     *)
(*   Variant C  timer 2 reload look-up table  (FreqGen_timer2.c)           *)
(*                                                                         *)
(* Each program is a foreground loop (main) preempted by one interrupt     *)
(* service routine that runs to completion.  A foreground step is one C    *)
(* statement that touches state another context can see; an ISR is one     *)
(* step.  Input pins (switches, button) are changed by the environment.    *)
(***************************************************************************)
EXTENDS Integers, Naturals, Sequences, FiniteSets, TLC

VARIABLES
    variant,     \* which of the three programs is loaded: "A", "B" or "C"
    pc,          \* position of the foreground loop of main
    sched,       \* scheduling of the foreground: "any", "prompt", or "live" (run without end)
    \* ---- Variant A
    TimerTick,   \* unsigned int TimerTick
    TimeOver,    \* bit TimeOver
    P3,          \* port 3 latch (bit 4 drives the LED on the board)
    \* ---- Variant B
    Increment,   \* uint8 Increment
    Counter,     \* static uint16 Counter of timer0
    ET0,         \* timer 0 interrupt enable bit
    Swit,        \* uint8 Swit of main
    pattern,     \* static uint8 pattern of LEDwalk
    direction,   \* static bit direction of LEDwalk
    \* ---- Variant C
    temp,        \* uint8 temp of main
    freqNum,     \* uint8 freqNum of main
    reloadVal,   \* uint16 reloadVal of main
    flash,       \* bit flash of main
    lastButton,  \* bit lastButton of main
    RCAP2L,      \* timer 2 reload register, low byte
    RCAP2H,      \* timer 2 reload register, high byte
    TF2,         \* timer 2 overflow flag
    T2,          \* TH2:TL2 as loaded by the last timer 2 reload
    INT0,        \* level on the button pin, port 3 bit 2 (set from outside)
    LED_PIN,     \* port 3 bit 4
    \* ---- pins and ports of Variants B and C
    SWITCHES,    \* level on the port 2 pins (set from outside)
    OUT_PIN,     \* port 3 bit 6
    LED_BANK,    \* port 0 latch
    \* ---- observers (not program state)
    tickLimit,   \* the model stops the timer after this many ISR executions
    loopLimit,   \* the model stops main after this many loop iterations
    btnLimit,    \* the button is moved at most this many times (-1: any number,
                 \* and the moves are not counted)
    ticks,       \* ISR executions so far
    loops,       \* completed iterations of the loop of main
    sets,        \* times the Variant A ISR has executed TimeOver = 1
    pending,     \* of those, the ones since the foreground last cleared the flag
    wakePending, \* value of pending when the foreground last left its wait
    served,      \* times the foreground has executed TimeOver = 0
    toggles,     \* toggles of the foreground LED output (A) / of OUT_PIN (B, C)
    lastToggleAt,\* value of ticks at the last toggle, -1 before the first
    gap,         \* ticks between the last two toggles, -1 before the second
    incReads,    \* values of Increment the Variant B ISR has read
    swRead,      \* switch value main read in the current iteration (C)
    selDone,     \* selector whose table entry RCAP2H:RCAP2L last held in full, -1 at reset
    t2From,      \* at the last timer 2 reload: <<selDone, freqNum, main was between
                 \* its writes of RCAP2L and RCAP2H>>
    samples,     \* levels of INT0 read by the button test, one per iteration
    lastSeen,    \* value of lastButton at each of those tests
    recorded,    \* levels of INT0 stored into lastButton, one per iteration
    flips,       \* whether flash changed, one per iteration
    btnChanges,  \* times the button has been moved (counted when btnLimit >= 0)
    fallLoop,    \* value of loops when INT0 last fell, -1 before (when counted)
    resumeFrom,  \* Counter when main last turned ET0 off, -1 once the ISR has run again
    resumed,     \* the ISR has run after ET0 was turned off and on again
    writes       \* <<variable, context, value>> of every assignment to a shared variable

varsA    == <<TimerTick, TimeOver, P3>>
varsB    == <<Increment, Counter, ET0, Swit, pattern, direction>>
varsC    == <<temp, freqNum, reloadVal, flash, lastButton, RCAP2L, RCAP2H, TF2, T2,
              INT0, LED_PIN>>
varsIO   == <<SWITCHES, OUT_PIN, LED_BANK>>
varsLim  == <<variant, sched, tickLimit, loopLimit, btnLimit>>
varsObs  == <<ticks, loops, sets, pending, wakePending, served, toggles,
              lastToggleAt, gap, incReads, writes>>
varsObsC == <<swRead, selDone, t2From, samples, lastSeen, recorded, flips>>
varsObsN == <<btnChanges, fallLoop, resumeFrom, resumed>>
vars     == <<pc, varsLim, varsA, varsB, varsC, varsIO, varsObs, varsObsC, varsObsN>>

----------------------------------------------------------------------------
(* Bounds of the model *)

\* Variant A runs until the ISR has raised this many events.
MaxEvents == 2

\* Variant B under changing switches: ISR executions and loop iterations.
MaxTicksB == 17
MaxLoopsB == 2

\* Variant B with the switches held: ISR executions and loop iterations.
MaxTicksPhase == 520
MaxLoopsPhase == 2

\* Variant C under changing switches: ISR executions and loop iterations.
MaxTicksC == 2
MaxLoopsC == 2

\* Variant C under a changing button: ISR executions and loop iterations.
MaxTicksButton == 1
MaxLoopsButton == 5
MaxLoopsPress == 3
MaxWalkCalls == 29
MaxLiveCount == 2
MaxButtonMoves == 1

----------------------------------------------------------------------------
(* Program constants *)

NUM_INTS == 11059

HIGH_BYTE == 65280
LOW_BYTE == 255
TOP_BIT == 128
LOW_NIBBLE == 15

----------------------------------------------------------------------------
(* Fixed-width arithmetic *)

Pow2(n) == 2 ^ n

\* bitwise operators on w-bit unsigned values
RECURSIVE BitAnd(_, _, _)
BitAnd(a, b, w) ==
    IF w = 0 THEN 0
    ELSE (a % 2) * (b % 2) + 2 * BitAnd(a \div 2, b \div 2, w - 1)

RECURSIVE BitXor(_, _, _)
BitXor(a, b, w) ==
    IF w = 0 THEN 0
    ELSE (((a % 2) + (b % 2)) % 2) + 2 * BitXor(a \div 2, b \div 2, w - 1)

BitNot(a, w) == (Pow2(w) - 1) - a

\* complement of a Keil "bit" object
NotBit(b) == 1 - b

----------------------------------------------------------------------------
(* State of the parts a program does not use: reset values *)

IdleA == TimerTick = 0 /\ TimeOver = 0 /\ P3 = 255

IdleB ==
    /\ Increment = 0
    /\ Counter = 0
    /\ ET0 = 0
    /\ Swit = 0
    /\ pattern = 1
    /\ direction = 1

IdleC ==
    /\ temp = 0
    /\ freqNum = 0
    /\ reloadVal = 0
    /\ flash = 1
    /\ lastButton = 0
    /\ RCAP2L = 0
    /\ RCAP2H = 0
    /\ TF2 = 0
    /\ T2 = 0
    /\ INT0 = 1
    /\ LED_PIN = 1

IdleIO == SWITCHES = 255 /\ OUT_PIN = 1 /\ LED_BANK = 255

ObsInitC ==
    /\ swRead = -1
    /\ selDone = -1
    /\ t2From = <<>>
    /\ samples = <<>>
    /\ lastSeen = <<>>
    /\ recorded = <<>>
    /\ flips = <<>>

ObsInit ==
    /\ ticks = 0
    /\ loops = 0
    /\ sets = 0
    /\ pending = 0
    /\ wakePending = 0
    /\ served = 0
    /\ toggles = 0
    /\ lastToggleAt = -1
    /\ gap = -1
    /\ incReads = {}
    /\ writes = {}
    /\ btnChanges = 0
    /\ fallLoop = -1
    /\ resumeFrom = -1
    /\ resumed = FALSE

----------------------------------------------------------------------------
(* Variant A: fixed-count event flag *)

\* globals are zeroed by the startup code, port 3 holds its reset value 0xFF,
\* and main has run its set-up (timer 0 started, ET0 = 1, EA = 1)
InitA ==
    /\ variant = "A"
    /\ pc = "A_wait"
    /\ sched = "any"
    /\ tickLimit = MaxEvents * (NUM_INTS + 1)
    /\ loopLimit = 0
    /\ btnLimit = -1
    /\ TimerTick = 0
    /\ TimeOver = 0
    /\ P3 = 255
    /\ IdleB
    /\ IdleC
    /\ IdleIO
    /\ ObsInit
    /\ ObsInitC

\* a counter of events: exact, except that in a run without end (sched =
\* "live") it stops at MaxLiveCount
Count(n) == IF sched = "live" /\ n >= MaxLiveCount THEN n ELSE n + 1

\* timer0 with the comparison >= for >
timer0_A_ge ==
    /\ variant = "A"
    /\ sched = "live" \/ ticks < tickLimit
    /\ sched = "prompt" => (pc = "A_wait" /\ TimeOver = 0)
    /\ LET t == (TimerTick + 1) % Pow2(16) IN
         IF t >= NUM_INTS
         THEN /\ TimerTick' = 0
              /\ TimeOver' = 1
              /\ sets' = Count(sets)
              /\ pending' = IF sched = "live" THEN pending ELSE pending + 1
              /\ writes' = writes \cup {<<"TimeOver", "isr", 1>>}
         ELSE /\ TimerTick' = t
              /\ UNCHANGED <<TimeOver, sets, pending, writes>>
    /\ ticks' = IF sched = "live" THEN ticks ELSE ticks + 1
    /\ UNCHANGED <<pc, varsLim, varsObsN, P3, varsB, varsC, varsObsC, varsIO, loops, wakePending,
                   served, toggles, lastToggleAt, gap, incReads>>

\* timer0 counting the events in TimeOver instead of flagging them
timer0_A_count ==
    /\ variant = "A"
    /\ sched = "live" \/ ticks < tickLimit
    /\ sched = "prompt" => (pc = "A_wait" /\ TimeOver = 0)
    /\ LET t == (TimerTick + 1) % Pow2(16) IN
         IF t > NUM_INTS
         THEN /\ TimerTick' = 0
              /\ TimeOver' = TimeOver + 1
              /\ sets' = Count(sets)
              /\ pending' = IF sched = "live" THEN pending ELSE pending + 1
              /\ writes' = writes \cup {<<"TimeOver", "isr", TimeOver'>>}
         ELSE /\ TimerTick' = t
              /\ UNCHANGED <<TimeOver, sets, pending, writes>>
    /\ ticks' = IF sched = "live" THEN ticks ELSE ticks + 1
    /\ UNCHANGED <<pc, varsLim, varsObsN, P3, varsB, varsC, varsObsC, varsIO, loops, wakePending,
                   served, toggles, lastToggleAt, gap, incReads>>

\* timer0 lowering the flag itself on the ticks that raise no event
timer0_A_lowers ==
    /\ variant = "A"
    /\ sched = "live" \/ ticks < tickLimit
    /\ sched = "prompt" => (pc = "A_wait" /\ TimeOver = 0)
    /\ LET t == (TimerTick + 1) % Pow2(16) IN
         IF t > NUM_INTS
         THEN /\ TimerTick' = 0
              /\ TimeOver' = 1
              /\ sets' = Count(sets)
              /\ pending' = IF sched = "live" THEN pending ELSE pending + 1
              /\ writes' = writes \cup {<<"TimeOver", "isr", 1>>}
         ELSE /\ TimerTick' = t
              /\ TimeOver' = 0
              /\ writes' = writes \cup {<<"TimeOver", "isr", 0>>}
              /\ UNCHANGED <<sets, pending>>
    /\ ticks' = IF sched = "live" THEN ticks ELSE ticks + 1
    /\ UNCHANGED <<pc, varsLim, varsObsN, P3, varsB, varsC, varsObsC, varsIO, loops, wakePending,
                   served, toggles, lastToggleAt, gap, incReads>>

\* void timer0 (void) interrupt 1
timer0_A ==
    /\ variant = "A"
    /\ sched = "live" \/ ticks < tickLimit
    /\ sched = "prompt" => (pc = "A_wait" /\ TimeOver = 0)
    /\ LET t == (TimerTick + 1) % Pow2(16) IN
         IF t > NUM_INTS
         THEN /\ TimerTick' = 0
              /\ TimeOver' = 1
              /\ sets' = Count(sets)
              /\ pending' = IF sched = "live" THEN pending ELSE pending + 1
              /\ writes' = writes \cup {<<"TimeOver", "isr", 1>>}
         ELSE /\ TimerTick' = t
              /\ UNCHANGED <<TimeOver, sets, pending, writes>>
    /\ ticks' = IF sched = "live" THEN ticks ELSE ticks + 1
    /\ UNCHANGED <<pc, varsLim, varsObsN, P3, varsB, varsC, varsObsC, varsIO, loops, wakePending, served,
                   toggles, lastToggleAt, gap, incReads>>

\* the wait left without looking at TimeOver
MainWait_A_nowait ==
    /\ variant = "A"
    /\ pc = "A_wait"
    /\ TimeOver \in {0, 1}
    /\ pc' = "A_toggle"
    /\ wakePending' = pending
    /\ UNCHANGED <<varsLim, varsObsN, varsA, varsB, varsC, varsObsC, varsIO, ticks, loops, sets, pending,
                   served, toggles, lastToggleAt, gap, incReads, writes>>

\* while(!TimeOver);
MainWait_A ==
    /\ variant = "A"
    /\ pc = "A_wait"
    /\ TimeOver # 0
    /\ pc' = "A_toggle"
    /\ wakePending' = pending
    /\ UNCHANGED <<varsLim, varsObsN, varsA, varsB, varsC, varsObsC, varsIO, ticks, loops, sets, pending,
                   served, toggles, lastToggleAt, gap, incReads, writes>>

\* P3 ^= 0x10;
MainToggle_A ==
    /\ variant = "A"
    /\ pc = "A_toggle"
    /\ P3' = BitXor(P3, 16, 8)
    /\ pc' = "A_clear"
    /\ toggles' = Count(toggles)
    /\ IF sched = "prompt"
       THEN /\ lastToggleAt' = ticks
            /\ gap' = IF lastToggleAt = -1 THEN -1 ELSE ticks - lastToggleAt
       ELSE UNCHANGED <<lastToggleAt, gap>>
    /\ UNCHANGED <<varsLim, varsObsN, TimerTick, TimeOver, varsB, varsC, varsObsC, varsIO, ticks, loops, sets,
                   pending, wakePending, served, incReads, writes>>

\* TimeOver = 0;
MainClear_A ==
    /\ variant = "A"
    /\ pc = "A_clear"
    /\ TimeOver' = 0
    /\ pc' = "A_wait"
    /\ pending' = 0
    /\ served' = IF sched = "live" THEN served ELSE served + 1
    /\ writes' = writes \cup {<<"TimeOver", "main", 0>>}
    /\ UNCHANGED <<varsLim, varsObsN, TimerTick, P3, varsB, varsC, varsObsC, varsIO, ticks, loops, sets,
                   wakePending, toggles, lastToggleAt, gap, incReads>>

NextA == timer0_A \/ MainWait_A \/ MainToggle_A \/ MainClear_A

SpecA == InitA /\ [][NextA]_vars

\* the same program with the foreground always finishing its service of an
\* event before the next timer tick (ticks are 250 clock cycles apart)
InitAPrompt ==
    /\ variant = "A"
    /\ pc = "A_wait"
    /\ sched = "prompt"
    /\ tickLimit = MaxEvents * (NUM_INTS + 1)
    /\ loopLimit = 0
    /\ btnLimit = -1
    /\ TimerTick = 0
    /\ TimeOver = 0
    /\ P3 = 255
    /\ IdleB
    /\ IdleC
    /\ IdleIO
    /\ ObsInit
    /\ ObsInitC

SpecAPrompt == InitAPrompt /\ [][NextA]_vars

\* the same program run without end: the timer never stops ticking, ticks
\* are not counted, and the ISR and the foreground loop are both scheduled
\* again and again (the timer is free running, the ISR returns within one
\* tick period and the foreground has no other work)
InitALive ==
    /\ variant = "A"
    /\ pc = "A_wait"
    /\ sched = "live"
    /\ tickLimit = 0
    /\ loopLimit = 0
    /\ btnLimit = -1
    /\ TimerTick = 0
    /\ TimeOver = 0
    /\ P3 = 255
    /\ IdleB
    /\ IdleC
    /\ IdleIO
    /\ ObsInit
    /\ ObsInitC

MainA == MainWait_A \/ MainToggle_A \/ MainClear_A

SpecALive ==
    /\ InitALive
    /\ [][NextA]_vars
    /\ WF_vars(timer0_A)
    /\ WF_vars(MainA)

----------------------------------------------------------------------------
(* Variant B: phase accumulator *)

\* switch settings the environment chooses from: interrupt off with all
\* frequency switches on, interrupt on with the lowest frequency, and
\* interrupt on with the highest frequency and bits 4 to 6 set as well
SwitchValuesB == {15, 128, 255}

\* Increment is a global without initialiser (zeroed by the startup code);
\* Counter, pattern and direction have initialisers; Swit is an automatic
\* variable, written before it is read.  ET0 is 0 after reset; main has set
\* the switch port to 0xFF, started timer 0 and set EA.
InitB ==
    /\ variant = "B"
    /\ pc = "B_read"
    /\ sched = "any"
    /\ tickLimit = MaxTicksB
    /\ loopLimit = MaxLoopsB
    /\ btnLimit = -1
    /\ IdleA
    /\ Increment = 0
    /\ Counter = 0
    /\ ET0 = 0
    /\ Swit = 0
    /\ pattern = 1
    /\ direction = 1
    /\ SWITCHES \in SwitchValuesB
    /\ OUT_PIN = 1
    /\ LED_BANK = 255
    /\ IdleC
    /\ ObsInit
    /\ ObsInitC

\* timer0 with Counter = 0 for Counter &= LOW_BYTE
timer0_B_reset ==
    /\ variant = "B"
    /\ ET0 = 1
    /\ ticks < tickLimit
    /\ LET c == (Counter + Increment) % Pow2(16) IN
         IF BitAnd(c, HIGH_BYTE, 16) # 0
         THEN /\ OUT_PIN' = NotBit(OUT_PIN)
              /\ Counter' = 0
              /\ toggles' = toggles + 1
              /\ lastToggleAt' = ticks + 1
              /\ gap' = IF lastToggleAt = -1 THEN -1 ELSE ticks + 1 - lastToggleAt
         ELSE /\ Counter' = c
              /\ UNCHANGED <<OUT_PIN, toggles, lastToggleAt, gap>>
    /\ incReads' = incReads \cup {Increment}
    /\ ticks' = ticks + 1
    /\ resumed' = (resumed \/ resumeFrom # -1)
    /\ resumeFrom' = -1
    /\ UNCHANGED <<pc, varsLim, btnChanges, fallLoop, varsA, varsC, varsObsC, Increment, ET0, Swit, pattern,
                   direction, SWITCHES, LED_BANK, loops, sets, pending, wakePending,
                   served, writes>>

\* timer0 without Counter &= LOW_BYTE
timer0_B_nomask ==
    /\ variant = "B"
    /\ ET0 = 1
    /\ ticks < tickLimit
    /\ LET c == (Counter + Increment) % Pow2(16) IN
         IF BitAnd(c, HIGH_BYTE, 16) # 0
         THEN /\ OUT_PIN' = NotBit(OUT_PIN)
              /\ Counter' = c
              /\ toggles' = toggles + 1
              /\ lastToggleAt' = ticks + 1
              /\ gap' = IF lastToggleAt = -1 THEN -1 ELSE ticks + 1 - lastToggleAt
         ELSE /\ Counter' = c
              /\ UNCHANGED <<OUT_PIN, toggles, lastToggleAt, gap>>
    /\ incReads' = incReads \cup {Increment}
    /\ ticks' = ticks + 1
    /\ resumed' = (resumed \/ resumeFrom # -1)
    /\ resumeFrom' = -1
    /\ UNCHANGED <<pc, varsLim, btnChanges, fallLoop, varsA, varsC, varsObsC, Increment, ET0, Swit, pattern, direction,
                   SWITCHES, LED_BANK, loops, sets, pending, wakePending, served,
                   writes>>

\* timer0 taken whatever ET0 is
timer0_B_always ==
    /\ variant = "B"
    /\ ET0 \in {0, 1}
    /\ ticks < tickLimit
    /\ LET c == (Counter + Increment) % Pow2(16) IN
         IF BitAnd(c, HIGH_BYTE, 16) # 0
         THEN /\ OUT_PIN' = NotBit(OUT_PIN)
              /\ Counter' = BitAnd(c, LOW_BYTE, 16)
              /\ toggles' = toggles + 1
              /\ lastToggleAt' = ticks + 1
              /\ gap' = IF lastToggleAt = -1 THEN -1 ELSE ticks + 1 - lastToggleAt
         ELSE /\ Counter' = c
              /\ UNCHANGED <<OUT_PIN, toggles, lastToggleAt, gap>>
    /\ incReads' = incReads \cup {Increment}
    /\ ticks' = ticks + 1
    /\ resumed' = (resumed \/ resumeFrom # -1)
    /\ resumeFrom' = -1
    /\ UNCHANGED <<pc, varsLim, btnChanges, fallLoop, varsA, varsC, varsObsC, Increment, ET0, Swit, pattern, direction,
                   SWITCHES, LED_BANK, loops, sets, pending, wakePending, served,
                   writes>>

\* void timer0 (void) interrupt 1, taken only while ET0 is set
timer0_B ==
    /\ variant = "B"
    /\ ET0 = 1
    /\ ticks < tickLimit
    /\ LET c == (Counter + Increment) % Pow2(16) IN
         IF BitAnd(c, HIGH_BYTE, 16) # 0
         THEN /\ OUT_PIN' = NotBit(OUT_PIN)
              /\ Counter' = BitAnd(c, LOW_BYTE, 16)
              /\ toggles' = toggles + 1
              /\ lastToggleAt' = ticks + 1
              /\ gap' = IF lastToggleAt = -1 THEN -1 ELSE ticks + 1 - lastToggleAt
         ELSE /\ Counter' = c
              /\ UNCHANGED <<OUT_PIN, toggles, lastToggleAt, gap>>
    /\ incReads' = incReads \cup {Increment}
    /\ ticks' = ticks + 1
    /\ resumed' = (resumed \/ resumeFrom # -1)
    /\ resumeFrom' = -1
    /\ UNCHANGED <<pc, varsLim, btnChanges, fallLoop, varsA, varsC, varsObsC, Increment, ET0, Swit, pattern, direction,
                   SWITCHES, LED_BANK, loops, sets, pending, wakePending, served,
                   writes>>

\* Swit = SWITCHES;
MainRead_B ==
    /\ variant = "B"
    /\ pc = "B_read"
    /\ Swit' = SWITCHES
    /\ pc' = "B_et0"
    /\ UNCHANGED <<varsLim, varsObsN, varsA, varsC, varsObsC, Increment, Counter, ET0, pattern,
                   direction, varsIO, varsObs>>

\* ET0 = ((Swit & TOP_BIT) == TOP_BIT);
MainEnable_B ==
    /\ variant = "B"
    /\ pc = "B_et0"
    /\ ET0' = IF BitAnd(Swit, TOP_BIT, 8) = TOP_BIT THEN 1 ELSE 0
    /\ resumeFrom' = IF ET0 = 1 /\ ET0' = 0 THEN Counter ELSE resumeFrom
    /\ pc' = "B_inc"
    /\ UNCHANGED <<varsLim, btnChanges, fallLoop, resumed, varsA, varsC, varsObsC, Increment, Counter, Swit, pattern,
                   direction, varsIO, varsObs>>

\* Increment = (Swit & LOW_NIBBLE) + 1;
MainIncrement_B ==
    /\ variant = "B"
    /\ pc = "B_inc"
    /\ Increment' = (BitAnd(Swit, LOW_NIBBLE, 8) + 1) % Pow2(8)
    /\ writes' = writes \cup {<<"Increment", "main", Increment'>>}
    /\ pc' = "B_walk"
    /\ UNCHANGED <<varsLim, varsObsN, varsA, varsC, varsObsC, Counter, ET0, Swit, pattern, direction, varsIO,
                   ticks, loops, sets, pending, wakePending, served, toggles,
                   lastToggleAt, gap, incReads>>

\* LEDwalk that turns at 0x40 instead of 0x80
LEDwalk_turn40 ==
    /\ IF direction = 1
       THEN LET p == (pattern * 2) % Pow2(8) IN
              /\ pattern' = p
              /\ direction' = IF p = 64 THEN 0 ELSE direction
       ELSE LET p == pattern \div 2 IN
              /\ pattern' = p
              /\ direction' = IF p = 1 THEN 1 ELSE direction
    /\ LED_BANK' = BitNot(pattern', 8)

\* LEDwalk that tests the pattern before shifting it
LEDwalk_lateturn ==
    /\ IF direction = 1
       THEN LET p == (pattern * 2) % Pow2(8) IN
              /\ pattern' = p
              /\ direction' = IF pattern = 128 THEN 0 ELSE direction
       ELSE LET p == pattern \div 2 IN
              /\ pattern' = p
              /\ direction' = IF pattern = 1 THEN 1 ELSE direction
    /\ LED_BANK' = BitNot(pattern', 8)

\* void LEDwalk (void)
LEDwalk ==
    /\ IF direction = 1
       THEN LET p == (pattern * 2) % Pow2(8) IN
              /\ pattern' = p
              /\ direction' = IF p = 128 THEN 0 ELSE direction
       ELSE LET p == pattern \div 2 IN
              /\ pattern' = p
              /\ direction' = IF p = 1 THEN 1 ELSE direction
    /\ LED_BANK' = BitNot(pattern', 8)

\* LEDwalk();
MainWalk_B ==
    /\ variant = "B"
    /\ pc = "B_walk"
    /\ LEDwalk
    /\ pc' = "B_delay"
    /\ UNCHANGED <<varsLim, varsObsN, varsA, varsC, varsObsC, Increment, Counter, ET0, Swit, SWITCHES,
                   OUT_PIN, varsObs>>

\* delay(60000); and back to the head of while (1)
MainDelay_B ==
    /\ variant = "B"
    /\ pc = "B_delay"
    /\ loops < loopLimit
    /\ pc' = "B_read"
    /\ loops' = loops + 1
    /\ UNCHANGED <<varsLim, varsObsN, varsA, varsB, varsC, varsObsC, varsIO, ticks, sets, pending, wakePending,
                   served, toggles, lastToggleAt, gap, incReads, writes>>

\* somebody moves the switches on port 2
SwitchChange_B ==
    /\ variant = "B"
    /\ \E s \in SwitchValuesB \ {SWITCHES} : SWITCHES' = s
    /\ UNCHANGED <<pc, varsLim, varsObsN, varsA, varsB, varsC, varsObsC, OUT_PIN, LED_BANK, varsObs>>

MainB == MainRead_B \/ MainEnable_B \/ MainIncrement_B \/ MainWalk_B \/ MainDelay_B

NextB == timer0_B \/ MainB \/ SwitchChange_B

SpecB == InitB /\ [][NextB]_vars

\* Variant B with the interrupt switch on and the frequency switches held at
\* one setting: the program just after the first assignment to Increment,
\* before any interrupt has advanced the counter
InitPhase ==
    /\ variant = "B"
    /\ pc = "B_walk"
    /\ sched = "any"
    /\ tickLimit = MaxTicksPhase
    /\ loopLimit = MaxLoopsPhase
    /\ btnLimit = -1
    /\ IdleA
    /\ SWITCHES \in 128 .. 143
    /\ Swit = SWITCHES
    /\ ET0 = 1
    /\ Increment = BitAnd(Swit, LOW_NIBBLE, 8) + 1
    /\ Counter = 0
    /\ pattern = 1
    /\ direction = 1
    /\ OUT_PIN = 1
    /\ LED_BANK = 255
    /\ IdleC
    /\ ObsInit
    /\ ObsInitC

NextPhase == timer0_B \/ MainB

SpecPhase == InitPhase /\ [][NextPhase]_vars

\* Variant B with the interrupt switch off and the switches held: only the
\* foreground loop runs, for MaxWalkCalls iterations
InitWalk ==
    /\ variant = "B"
    /\ pc = "B_read"
    /\ sched = "any"
    /\ tickLimit = 0
    /\ loopLimit = MaxWalkCalls
    /\ btnLimit = -1
    /\ IdleA
    /\ Increment = 0
    /\ Counter = 0
    /\ ET0 = 0
    /\ Swit = 0
    /\ pattern = 1
    /\ direction = 1
    /\ SWITCHES \in 0 .. 15
    /\ OUT_PIN = 1
    /\ LED_BANK = 255
    /\ IdleC
    /\ ObsInit
    /\ ObsInitC

SpecWalk == InitWalk /\ [][MainB]_vars

----------------------------------------------------------------------------
(* Variant C: timer 2 reload values from a look-up table *)

FREQ_MASK == 7

\* code uint16 lookUp[8]
lookUp == <<37888, 47104, 51712, 56320, 58624, 62080, 63232, 64000>>

\* lookUp[i] with the index of the C array, 0..7
LookUp(i) == lookUp[i + 1]

\* switch settings the environment moves to: selectors 0 and 5, and
\* selector 2 with bits 3 to 7 set as well (any setting at power-up)
SwitchValuesC == {0, 5, 250}

\* flash and lastButton have initialisers; temp, freqNum and reloadVal are
\* automatic variables, written before they are read.  The reload registers,
\* the timer and TF2 are 0 after reset and the port pins 1; main has set the
\* switch port to 0xFF, started timer 2 in auto-reload mode and set ET2, EA.
StartC ==
    /\ variant = "C"
    /\ pc = "C_select"
    /\ sched = "any"
    /\ IdleA
    /\ IdleB
    /\ temp = 0
    /\ freqNum = 0
    /\ reloadVal = 0
    /\ flash = 1
    /\ lastButton = 0
    /\ RCAP2L = 0
    /\ RCAP2H = 0
    /\ TF2 = 0
    /\ T2 = 0
    /\ LED_PIN = 1
    /\ OUT_PIN = 1
    /\ LED_BANK = 255
    /\ ObsInit
    /\ ObsInitC

InitC ==
    /\ StartC
    /\ tickLimit = MaxTicksC
    /\ loopLimit = MaxLoopsC
    /\ btnLimit = -1
    /\ SWITCHES \in 0 .. 255
    /\ INT0 \in {0, 1}

\* timer 2 overflows: the hardware sets TF2 and reloads TH2:TL2 from
\* RCAP2H:RCAP2L (T2CON = 0x04, auto-reload); the ISR is then pending
Timer2Overflow ==
    /\ variant = "C"
    /\ TF2 = 0
    /\ ticks < tickLimit
    /\ T2' = RCAP2H * 256 + RCAP2L
    /\ TF2' = 1
    /\ t2From' = <<selDone, freqNum, pc = "C_rcaph">>
    /\ UNCHANGED <<pc, varsLim, varsObsN, varsA, varsB, temp, freqNum, reloadVal, flash,
                   lastButton, RCAP2L, RCAP2H, INT0, LED_PIN, varsIO, varsObs,
                   swRead, selDone, samples, lastSeen, recorded, flips>>

\* timer2 without TF2 = 0
timer2_noack ==
    /\ variant = "C"
    /\ TF2 = 1
    /\ OUT_PIN' = NotBit(OUT_PIN)
    /\ ticks < tickLimit
    /\ ticks' = ticks + 1
    /\ toggles' = toggles + 1
    /\ UNCHANGED <<pc, varsLim, varsObsN, varsA, varsB, temp, freqNum, reloadVal, flash,
                   lastButton, RCAP2L, RCAP2H, TF2, T2, INT0, LED_PIN, SWITCHES,
                   LED_BANK, loops, sets, pending, wakePending, served,
                   lastToggleAt, gap, incReads, writes, varsObsC>>

\* void timer2 (void) interrupt 5
timer2 ==
    /\ variant = "C"
    /\ TF2 = 1
    /\ OUT_PIN' = NotBit(OUT_PIN)
    /\ TF2' = 0
    /\ ticks' = ticks + 1
    /\ toggles' = toggles + 1
    /\ UNCHANGED <<pc, varsLim, varsObsN, varsA, varsB, temp, freqNum, reloadVal, flash,
                   lastButton, RCAP2L, RCAP2H, T2, INT0, LED_PIN, SWITCHES,
                   LED_BANK, loops, sets, pending, wakePending, served,
                   lastToggleAt, gap, incReads, writes, varsObsC>>

\* the selection with a two-bit mask
MainSelect_C_mask3 ==
    /\ variant = "C"
    /\ pc = "C_select"
    /\ temp' = SWITCHES
    /\ freqNum' = BitAnd(temp', 3, 8)
    /\ reloadVal' = LookUp(freqNum')
    /\ swRead' = SWITCHES
    /\ pc' = "C_rcapl"
    /\ UNCHANGED <<varsLim, varsObsN, varsA, varsB, flash, lastButton, RCAP2L, RCAP2H, TF2,
                   T2, INT0, LED_PIN, varsIO, varsObs, selDone, t2From, samples,
                   lastSeen, recorded, flips>>

\* temp = SWITCHES; freqNum = temp & FREQ_MASK; reloadVal = lookUp[freqNum];
MainSelect_C ==
    /\ variant = "C"
    /\ pc = "C_select"
    /\ temp' = SWITCHES
    /\ freqNum' = BitAnd(temp', FREQ_MASK, 8)
    /\ reloadVal' = LookUp(freqNum')
    /\ swRead' = SWITCHES
    /\ pc' = "C_rcapl"
    /\ UNCHANGED <<varsLim, varsObsN, varsA, varsB, flash, lastButton, RCAP2L, RCAP2H, TF2,
                   T2, INT0, LED_PIN, varsIO, varsObs, selDone, t2From, samples,
                   lastSeen, recorded, flips>>

\* the low register loaded with the high byte
MainReloadLow_C_high ==
    /\ variant = "C"
    /\ pc = "C_rcapl"
    /\ RCAP2L' = (reloadVal \div Pow2(8)) % Pow2(8)
    /\ pc' = "C_rcaph"
    /\ UNCHANGED <<varsLim, varsObsN, varsA, varsB, temp, freqNum, reloadVal, flash,
                   lastButton, RCAP2H, TF2, T2, INT0, LED_PIN, varsIO, varsObs,
                   varsObsC>>

\* RCAP2L = reloadVal & LOW_BYTE;
MainReloadLow_C ==
    /\ variant = "C"
    /\ pc = "C_rcapl"
    /\ RCAP2L' = BitAnd(reloadVal, LOW_BYTE, 16) % Pow2(8)
    /\ pc' = "C_rcaph"
    /\ UNCHANGED <<varsLim, varsObsN, varsA, varsB, temp, freqNum, reloadVal, flash,
                   lastButton, RCAP2H, TF2, T2, INT0, LED_PIN, varsIO, varsObs,
                   varsObsC>>

\* RCAP2H = reloadVal >> 8;
MainReloadHigh_C ==
    /\ variant = "C"
    /\ pc = "C_rcaph"
    /\ RCAP2H' = (reloadVal \div Pow2(8)) % Pow2(8)
    /\ selDone' = freqNum
    /\ pc' = "C_leds"
    /\ UNCHANGED <<varsLim, varsObsN, varsA, varsB, temp, freqNum, reloadVal, flash,
                   lastButton, RCAP2L, TF2, T2, INT0, LED_PIN, varsIO, varsObs,
                   swRead, t2From, samples, lastSeen, recorded, flips>>

\* the LED step with LED_BANK = temp (the one-hot code not complemented)
MainLeds_C_nocomp ==
    /\ variant = "C"
    /\ pc = "C_leds"
    /\ temp' = (1 * Pow2(freqNum)) % Pow2(8)
    /\ LED_BANK' = temp'
    /\ pc' = "C_button"
    /\ UNCHANGED <<varsLim, varsObsN, varsA, varsB, freqNum, reloadVal, flash, lastButton,
                   RCAP2L, RCAP2H, TF2, T2, INT0, LED_PIN, SWITCHES, OUT_PIN,
                   varsObs, varsObsC>>

\* temp = 1; temp <<= freqNum; LED_BANK = ~temp;
MainLeds_C ==
    /\ variant = "C"
    /\ pc = "C_leds"
    /\ temp' = (1 * Pow2(freqNum)) % Pow2(8)
    /\ LED_BANK' = BitNot(temp', 8)
    /\ pc' = "C_button"
    /\ UNCHANGED <<varsLim, varsObsN, varsA, varsB, freqNum, reloadVal, flash, lastButton,
                   RCAP2L, RCAP2H, TF2, T2, INT0, LED_PIN, SWITCHES, OUT_PIN,
                   varsObs, varsObsC>>

\* the button test taking any change of level for a press
MainButton_C_anyedge ==
    /\ variant = "C"
    /\ pc = "C_button"
    /\ flash' = IF BitXor(lastButton, INT0, 1) # 0 THEN NotBit(flash) ELSE flash
    /\ samples' = Append(samples, INT0)
    /\ lastSeen' = Append(lastSeen, lastButton)
    /\ flips' = Append(flips, flash' # flash)
    /\ pc' = "C_last"
    /\ UNCHANGED <<varsLim, varsObsN, varsA, varsB, temp, freqNum, reloadVal, lastButton,
                   RCAP2L, RCAP2H, TF2, T2, INT0, LED_PIN, varsIO, varsObs, swRead,
                   selDone, t2From, recorded>>

\* if (lastButton & ~INT0) { flash = ~flash; }
MainButton_C ==
    /\ variant = "C"
    /\ pc = "C_button"
    /\ flash' = IF BitAnd(lastButton, NotBit(INT0), 1) # 0 THEN NotBit(flash) ELSE flash
    /\ samples' = Append(samples, INT0)
    /\ lastSeen' = Append(lastSeen, lastButton)
    /\ flips' = Append(flips, flash' # flash)
    /\ pc' = "C_last"
    /\ UNCHANGED <<varsLim, varsObsN, varsA, varsB, temp, freqNum, reloadVal, lastButton,
                   RCAP2L, RCAP2H, TF2, T2, INT0, LED_PIN, varsIO, varsObs, swRead,
                   selDone, t2From, recorded>>

\* lastButton = INT0;
MainLast_C ==
    /\ variant = "C"
    /\ pc = "C_last"
    /\ lastButton' = INT0
    /\ recorded' = Append(recorded, INT0)
    /\ pc' = "C_flash"
    /\ UNCHANGED <<varsLim, varsObsN, varsA, varsB, temp, freqNum, reloadVal, flash, RCAP2L,
                   RCAP2H, TF2, T2, INT0, LED_PIN, varsIO, varsObs, swRead, selDone,
                   t2From, samples, lastSeen, flips>>

\* the flash step written with OUT_PIN for LED_PIN
MainFlash_C_outpin ==
    /\ variant = "C"
    /\ pc = "C_flash"
    /\ OUT_PIN' = IF flash # 0 THEN NotBit(OUT_PIN) ELSE 1
    /\ pc' = "C_delay"
    /\ UNCHANGED <<varsLim, varsObsN, varsA, varsB, temp, freqNum, reloadVal, flash,
                   lastButton, RCAP2L, RCAP2H, TF2, T2, INT0, LED_PIN, SWITCHES,
                   LED_BANK, varsObs, varsObsC>>

\* the flash step with else LED_PIN = 0
MainFlash_C_off0 ==
    /\ variant = "C"
    /\ pc = "C_flash"
    /\ LED_PIN' = IF flash # 0 THEN NotBit(LED_PIN) ELSE 0
    /\ pc' = "C_delay"
    /\ UNCHANGED <<varsLim, varsObsN, varsA, varsB, temp, freqNum, reloadVal, flash,
                   lastButton, RCAP2L, RCAP2H, TF2, T2, INT0, varsIO, varsObs,
                   varsObsC>>

\* if (flash) LED_PIN = ~LED_PIN; else LED_PIN = 1;
MainFlash_C ==
    /\ variant = "C"
    /\ pc = "C_flash"
    /\ LED_PIN' = IF flash # 0 THEN NotBit(LED_PIN) ELSE 1
    /\ pc' = "C_delay"
    /\ UNCHANGED <<varsLim, varsObsN, varsA, varsB, temp, freqNum, reloadVal, flash,
                   lastButton, RCAP2L, RCAP2H, TF2, T2, INT0, varsIO, varsObs,
                   varsObsC>>

\* delay (60000); and back to the head of while (1)
MainDelay_C ==
    /\ variant = "C"
    /\ pc = "C_delay"
    /\ loops < loopLimit
    /\ pc' = "C_select"
    /\ loops' = loops + 1
    /\ UNCHANGED <<varsLim, varsObsN, varsA, varsB, varsC, varsIO, ticks, sets, pending,
                   wakePending, served, toggles, lastToggleAt, gap, incReads,
                   writes, varsObsC>>

\* somebody moves the switches on port 2
SwitchChange_C ==
    /\ variant = "C"
    /\ \E s \in SwitchValuesC \ {SWITCHES} : SWITCHES' = s
    /\ UNCHANGED <<pc, varsLim, varsObsN, varsA, varsB, varsC, OUT_PIN, LED_BANK, varsObs,
                   varsObsC>>

\* somebody presses or releases the INT0 button
ButtonChange ==
    /\ variant = "C"
    /\ btnLimit >= 0 => btnChanges < btnLimit
    /\ INT0' = NotBit(INT0)
    /\ btnChanges' = IF btnLimit >= 0 THEN btnChanges + 1 ELSE btnChanges
    /\ fallLoop' = IF btnLimit >= 0 /\ INT0 = 1 THEN loops ELSE fallLoop
    /\ UNCHANGED <<pc, varsLim, resumeFrom, resumed, varsA, varsB, temp, freqNum, reloadVal, flash,
                   lastButton, RCAP2L, RCAP2H, TF2, T2, LED_PIN, varsIO, varsObs,
                   varsObsC>>

MainC ==
    \/ MainSelect_C
    \/ MainReloadLow_C
    \/ MainReloadHigh_C
    \/ MainLeds_C
    \/ MainButton_C
    \/ MainLast_C
    \/ MainFlash_C
    \/ MainDelay_C

\* the switches move, the button is left alone
NextC == Timer2Overflow \/ timer2 \/ MainC \/ SwitchChange_C

SpecC == InitC /\ [][NextC]_vars

\* the button moves, the switches are left alone
InitButton ==
    /\ StartC
    /\ tickLimit = MaxTicksButton
    /\ loopLimit = MaxLoopsButton
    /\ btnLimit = -1
    /\ SWITCHES = 255
    /\ INT0 \in {0, 1}

NextButton == Timer2Overflow \/ timer2 \/ MainC \/ ButtonChange

SpecButton == InitButton /\ [][NextButton]_vars

\* one press: the button starts released (INT0 high) and is moved at most
\* MaxButtonMoves times, at any point of the loop
InitPress ==
    /\ StartC
    /\ tickLimit = MaxTicksButton
    /\ loopLimit = MaxLoopsPress
    /\ btnLimit = MaxButtonMoves
    /\ SWITCHES = 255
    /\ INT0 = 1

SpecPress == InitPress /\ [][NextButton]_vars

----------------------------------------------------------------------------
(* Any of the three programs *)

Init == InitA \/ InitB \/ InitC

Next == NextA \/ NextB \/ NextC

Spec == Init /\ [][Next]_vars

----------------------------------------------------------------------------
(* Claims *)

\* the contexts that have assigned the shared variable v
Writers(v) == {w[2] : w \in {x \in writes : x[1] = v}}

\* C1: Variant B with a constant Increment in 1..16, from Counter = 0: after
\* N ticks the pin has been toggled floor(N * Increment / 256) times (so within
\* 1 of N * Increment / 256), Counter holds the remainder, and the pin level
\* has followed one inversion per counted toggle.
C1_ToggleCount ==
    variant = "B" =>
        /\ Increment \in 1 .. 16
        /\ toggles = (ticks * Increment) \div 256
        /\ Counter = (ticks * Increment) % 256
        /\ OUT_PIN = (1 + toggles) % 2

C1_Witness ==
    /\ variant = "B"
    /\ Increment = 3
    /\ ticks = 171
    /\ toggles = 2
    /\ Counter = 1

\* C2: Variant A, NUM_INTS = K: counting ticks from TimerTick = 0, the ISR
\* sets TimeOver and resets TimerTick on exactly every (K+1)-th tick and on
\* no other tick (so not before the (K+1)-th).
C2_FlagEveryKPlus1 ==
    variant = "A" =>
        /\ sets = ticks \div (NUM_INTS + 1)
        /\ TimerTick = ticks % (NUM_INTS + 1)
        /\ (ticks < NUM_INTS + 1 => TimeOver = 0)

C2_Witness ==
    /\ variant = "A"
    /\ ticks = 2 * (NUM_INTS + 1)
    /\ sets = 2
    /\ served = 1
    /\ TimeOver = 1

\* C3 (as claimed): Variant A with a prompt foreground: consecutive toggles
\* of P3 bit 4 are exactly NUM_INTS ticks apart.
C3_ToggleGapIsNumInts ==
    (variant = "A" /\ sched = "prompt" /\ gap # -1) => gap = NUM_INTS

\* C4: Variant A: however many events the ISR has raised since the flag was
\* last cleared, TimeOver is just 1 (0 if none), and each time the foreground
\* leaves its wait it toggles P3 bit 4 once and clears the flag: the events
\* are neither counted nor queued.
C4_EventsNotQueued ==
    variant = "A" =>
        /\ TimeOver = (IF pending > 0 THEN 1 ELSE 0)
        /\ toggles = served + (IF pc = "A_clear" THEN 1 ELSE 0)
        /\ (P3 \div 16) % 2 = (1 + toggles) % 2

\* two events were raised while the foreground waited; it then ran, toggled
\* once, cleared the flag and waits again
C4_Witness ==
    /\ variant = "A"
    /\ wakePending = 2
    /\ sets = 2
    /\ toggles = 1
    /\ pc = "A_wait"
    /\ TimeOver = 0

\* C5 (as claimed): each variable shared between the ISR and the foreground
\* is assigned by one context only.
C5_OneWriter ==
    /\ Cardinality(Writers("TimeOver")) <= 1
    /\ Cardinality(Writers("Increment")) <= 1

\* C5 (amended): Increment is assigned by the foreground only; TimeOver is
\* assigned by both contexts, the ISR only ever setting it to 1 and the
\* foreground only ever clearing it to 0.
C5_WriterRoles ==
    /\ Writers("Increment") \subseteq {"main"}
    /\ \A w \in writes :
         w[1] = "TimeOver" => w \in {<<"TimeOver", "isr", 1>>, <<"TimeOver", "main", 0>>}

C5_Witness ==
    /\ variant = "A"
    /\ Writers("TimeOver") = {"isr", "main"}

\* C6 (as claimed): every execution of the Variant B ISR reads an Increment
\* in 1..16.
C6_IncrementReadInRange ==
    variant = "B" => incReads \subseteq 1 .. 16

\* the reload recorded in t2From happened after the first iteration had
\* written both reload registers
ReloadAfterFirstWrite == t2From # <<>> /\ t2From[1] # -1

\* C7 (as claimed): Variant C: once both reload registers have been written,
\* every timer 2 expiry reloads lookUp[a] or lookUp[b], a the selector the
\* registers held and b the selector main is writing.
C7_ReloadIsOldOrNew ==
    (variant = "C" /\ ReloadAfterFirstWrite) =>
        T2 \in {LookUp(t2From[1]), LookUp(t2From[2])}

\* C7 (amended): such an expiry reloads lookUp[a], except that an expiry
\* between main's write of RCAP2L and its write of RCAP2H reloads the high
\* byte of lookUp[a] with the low byte of lookUp[b]; that value is neither
\* lookUp[a] nor lookUp[b] exactly when one of a, b is 5, the one entry
\* with a nonzero low byte.
C7_ReloadOldNewOrMixed ==
    (variant = "C" /\ ReloadAfterFirstWrite) =>
        LET a == t2From[1]
            b == t2From[2]
            mixed == (LookUp(a) \div 256) * 256 + (LookUp(b) % 256)
        IN  /\ T2 = IF t2From[3] THEN mixed ELSE LookUp(a)
            /\ T2 \notin {LookUp(a), LookUp(b)} <=> t2From[3] /\ ((a = 5) # (b = 5))

\* the timer expired between the two writes of a change from selector 0 to
\* selector 5 and reloaded 0x9480
C7_Witness ==
    /\ variant = "C"
    /\ t2From = <<0, 5, TRUE>>
    /\ T2 = 38016

\* C8: Variant C: once an iteration has written both registers,
\* RCAP2H * 256 + RCAP2L is the table entry of the selector it read (the
\* switch port & 0x07), for each of the 8 selectors; the table is the one
\* claimed and strictly increasing.
C8_ReloadMatchesTable ==
    /\ lookUp = <<37888, 47104, 51712, 56320, 58624, 62080, 63232, 64000>>
    /\ \A i, j \in 0 .. 7 : i < j => LookUp(i) < LookUp(j)
    /\ (variant = "C" /\ pc \in {"C_leds", "C_button", "C_last", "C_flash", "C_delay"}) =>
           RCAP2H * 256 + RCAP2L = LookUp(swRead % 8)

C8_Witness ==
    /\ variant = "C"
    /\ pc = "C_delay"
    /\ loops = 1
    /\ swRead = 253
    /\ RCAP2H = 242
    /\ RCAP2L = 128

\* C9: Variant C: every execution of the timer2 ISR inverts OUT_PIN once and
\* leaves TF2 cleared, whatever the switches and reload registers hold, and
\* leaves RCAP2L, RCAP2H, flash, lastButton, LED_PIN, LED_BANK (and the
\* switches) as they were.
C9_Timer2Frame ==
    [][(variant = "C" /\ ticks' # ticks) =>
          /\ OUT_PIN' = 1 - OUT_PIN
          /\ TF2' = 0
          /\ UNCHANGED <<RCAP2L, RCAP2H, flash, lastButton, LED_PIN, LED_BANK, SWITCHES>>]_vars

\* the ISR has run twice with selector 5 in the registers
C9_Witness ==
    /\ variant = "C"
    /\ ticks = 2
    /\ selDone = 5
    /\ TF2 = 0
    /\ OUT_PIN = 1

\* C10: Variant C: in each iteration flash is inverted iff lastButton (the
\* level stored by the previous iteration, 0 in the first) is 1 and the level
\* the button test reads is 0; when the iterations read the levels
\* 1,1,0,0,1 (and store what they read) flash is inverted in the third
\* iteration only.
C10_FallingEdgeOnly ==
    variant = "C" =>
        /\ \A i \in 1 .. Len(flips) :
             /\ flips[i] <=> (lastSeen[i] = 1 /\ samples[i] = 0)
             /\ lastSeen[i] = IF i = 1 THEN 0 ELSE recorded[i - 1]
        /\ ( /\ Len(flips) >= 5
             /\ SubSeq(samples, 1, 5) = <<1, 1, 0, 0, 1>>
             /\ SubSeq(recorded, 1, 4) = <<1, 1, 0, 0>> )
           => SubSeq(flips, 1, 5) = <<FALSE, FALSE, TRUE, FALSE, FALSE>>

C10_Witness ==
    /\ variant = "C"
    /\ samples = <<1, 1, 0, 0, 1>>
    /\ recorded = <<1, 1, 0, 0, 1>>
    /\ flips = <<FALSE, FALSE, TRUE, FALSE, FALSE>>
    /\ flash = 0

\* ---- C11 ----

\* number of iterations in which flash was inverted
RECURSIVE CountTrue(_)
CountTrue(q) == IF q = <<>> THEN 0 ELSE (IF q[1] THEN 1 ELSE 0) + CountTrue(Tail(q))

\* the button has been pressed once: it was high through the iterations
\* before fallLoop, fell during iteration fallLoop + 1 and has been low since,
\* at least until the button check of the iteration after
PressDone ==
    /\ variant = "C"
    /\ btnChanges = 1
    /\ INT0 = 0
    /\ fallLoop >= 1
    /\ Len(flips) >= fallLoop + 2

\* C11: a press (INT0 high for a whole iteration, then low for a whole
\* iteration) inverts flash exactly once, wherever in the loop the pin falls
C11_PressFlipsOnce == PressDone => CountTrue(flips) = 1

\* the pin fell between the read of line 119 and the read of line 123
C11_FellBetweenReads ==
    /\ PressDone
    /\ samples[fallLoop + 1] = 1
    /\ recorded[fallLoop + 1] = 0

\* a press that falls anywhere but between the two reads of INT0 inverts flash
\* exactly once, and one that falls between them does not invert it at all
C11_PressFlipsUnlessBetweenReads ==
    PressDone => CountTrue(flips) = (IF C11_FellBetweenReads THEN 0 ELSE 1)

\* ---- C12 ----

\* calls of LEDwalk made so far
WalkCalls == loops + (IF pc = "B_delay" THEN 1 ELSE 0)

\* the walk as the claim describes it: up from 0x01 to 0x80, shifting left
\* (direction 1) until 0x80 is reached, then down again, shifting right
\* (direction 0) until 0x01 is reached
WalkAt(n) ==
    LET k == n % 14 IN
      IF k < 7 THEN <<Pow2(k), 1>> ELSE <<Pow2(14 - k), 0>>

\* C12: from pattern 0x01 and direction left, 7 calls of LEDwalk give pattern
\* 0x80 and direction right, 14 calls give pattern 0x01 and direction left,
\* the pairs (pattern, direction) repeat with period exactly 14, and every
\* call writes the complement of the new pattern to the LED port
C12_WalkPeriod14 ==
    variant = "B" =>
      /\ <<pattern, direction>> = WalkAt(WalkCalls)
      /\ WalkCalls = 7 => (pattern = 128 /\ direction = 0)
      /\ WalkCalls = 14 => (pattern = 1 /\ direction = 1)
      /\ \A j, k \in 0 .. 13 : WalkAt(j) = WalkAt(k) => j = k
      /\ WalkCalls >= 1 => LED_BANK = 255 - pattern

\* the second period has been walked to its turning point
C12_Witness ==
    /\ variant = "B"
    /\ WalkCalls = 21
    /\ pattern = 128
    /\ direction = 0
    /\ LED_BANK = 127

\* ---- C20 ----

\* C20: after any number of calls of LEDwalk the pattern has exactly one bit
\* set, direction is 0 whenever the pattern is 0x80 and 1 whenever it is 0x01
C20_OneHotPattern ==
    variant = "B" =>
      /\ pattern \in {Pow2(k) : k \in 0 .. 7}
      /\ pattern = 128 => direction = 0
      /\ pattern = 1 => direction = 1

\* both ends of the walk have been visited
C20_Witness ==
    /\ variant = "B"
    /\ WalkCalls = 14
    /\ pattern = 1
    /\ direction = 1
    /\ LED_BANK = 254

\* ---- C13 ----

\* C13: whatever interrupts are interleaved with the foreground steps, in
\* every state outside an ISR execution Counter (Variant B) is in 0..255 and
\* TimeOver (Variant A) is 0 or 1
C13_CounterAndFlagRanges ==
    /\ variant = "B" => Counter \in 0 .. 255
    /\ variant = "A" => TimeOver \in {0, 1}

\* the accumulator has overflowed with a remainder: one tick at Increment 1
\* (or one at 0 and one more), the rest at 16
C13_Witness ==
    /\ variant = "B"
    /\ toggles = 1
    /\ Counter = 1
    /\ Increment = 16

\* ---- C14 ----

\* C14: in Variant B the ISR runs only while ET0 is 1, every step that is
\* not an ISR execution leaves Counter and OUT_PIN unchanged, and the first
\* ISR execution after ET0 was turned off and on again starts from the value
\* Counter had when it was turned off (the value the last ISR execution left)
C14_DisabledKeepsPhase ==
    [][variant = "B" =>
         IF ticks' # ticks
         THEN /\ ET0 = 1
              /\ resumeFrom # -1 => Counter = resumeFrom
         ELSE /\ Counter' = Counter
              /\ OUT_PIN' = OUT_PIN]_vars

\* the ISR ran, was disabled with a nonzero Counter, and has run again
C14_Witness ==
    /\ variant = "B"
    /\ resumed
    /\ ET0 = 1
    /\ ticks = 2
    /\ Counter = 2

\* ---- C15 ----

\* bit 6 of port 3 (OUT_PIN) as held in Variant A's P3
P3Bit6 == (P3 \div 64) % 2

\* C15: in all three programs no output is written by both contexts. An ISR
\* execution leaves the LED outputs (P3 of Variant A, LED_PIN, LED_BANK)
\* unchanged, a foreground step leaves OUT_PIN (P3 bit 6) unchanged, OUT_PIN
\* changes only in ISR executions of Variants B and C, and the LED outputs
\* change only in foreground steps
C15_OutputsHaveOneContext ==
    [][/\ ticks' # ticks =>
            (P3' = P3 /\ LED_PIN' = LED_PIN /\ LED_BANK' = LED_BANK)
       /\ pc' # pc => (OUT_PIN' = OUT_PIN /\ P3Bit6' = P3Bit6)
       /\ OUT_PIN' # OUT_PIN => (ticks' # ticks /\ variant \in {"B", "C"})
       /\ (P3' # P3 \/ LED_PIN' # LED_PIN \/ LED_BANK' # LED_BANK) =>
            pc' # pc]_vars

\* in Variant C both contexts have written their outputs
C15_Witness ==
    /\ variant = "C"
    /\ toggles = 1
    /\ OUT_PIN = 0
    /\ LED_PIN = 0
    /\ LED_BANK = 223

\* ---- C16 ----

\* ceiling of 256 / i
CeilDiv256(i) == (256 + i - 1) \div i

\* C16: in Variant B with Increment held at i in 1..16, the number of ticks
\* between two consecutive toggles of OUT_PIN is floor(256/i) or ceil(256/i);
\* it is always 256 for i = 1 and always 16 for i = 16
C16_ToggleGapFloorOrCeil ==
    (variant = "B" /\ gap # -1) =>
      /\ Increment \in 1 .. 16
      /\ gap \in {256 \div Increment, CeilDiv256(Increment)}
      /\ Increment = 1 => gap = 256
      /\ Increment = 16 => gap = 16

\* with Increment 3 the toggles fall on ticks 86, 171, 256: a gap of 85
\* follows one of 85, after the first toggle took 86 ticks
C16_Witness ==
    /\ variant = "B"
    /\ Increment = 3
    /\ toggles = 3
    /\ lastToggleAt = 256
    /\ gap = 85

\* ---- C17 ----

\* executions of lines 126-127 so far
FlashSteps == loops + (IF pc = "C_delay" THEN 1 ELSE 0)

\* flash was not inverted by the last button check
FlashWasKept == flips # <<>> /\ ~flips[Len(flips)]

\* C17: the step at lines 126-127 inverts LED_PIN if flash is 1 and sets it
\* to 1 if flash is 0, and nothing else changes LED_PIN; as long as flash has
\* not been inverted it is 1 and LED_PIN has changed in every iteration;
\* while flash is 0, LED_PIN is 1 from the first such step on
C17_FlashDrivesLed ==
    /\ [][variant = "C" =>
            IF pc = "C_flash" /\ pc' = "C_delay"
            THEN LED_PIN' = (IF flash = 1 THEN 1 - LED_PIN ELSE 1)
            ELSE LED_PIN' = LED_PIN]_vars
    /\ [](variant = "C" =>
            /\ CountTrue(flips) = 0 =>
                 (flash = 1 /\ LED_PIN = (1 + FlashSteps) % 2)
            /\ (flash = 0 /\ (pc \notin {"C_last", "C_flash"} \/ FlashWasKept)) =>
                 LED_PIN = 1)

\* the LED blinked once, the second iteration turned flashing off and set
\* LED_PIN, the third kept it at 1
C17_Witness ==
    /\ variant = "C"
    /\ pc = "C_delay"
    /\ flips = <<FALSE, TRUE, FALSE>>
    /\ flash = 0
    /\ LED_PIN = 1

\* ---- C18 ----

\* bit b of the byte v
BitOf(v, b) == (v \div Pow2(b)) % 2

\* C18: for every selector n in 0..7 (the low three bits of the switches read
\* in this iteration) the iteration writes ~(1 << n) & 0xFF to the LED bank:
\* bit n is 0 and the seven other bits are 1
C18_LedBankOneHotLow ==
    (variant = "C" /\ pc \in {"C_button", "C_last", "C_flash", "C_delay"}) =>
      LET n == swRead % 8 IN
        /\ freqNum = n
        /\ LED_BANK = 255 - Pow2(n)
        /\ \A b \in 0 .. 7 : BitOf(LED_BANK, b) = (IF b = n THEN 0 ELSE 1)

\* the second iteration has shown selector 5
C18_Witness ==
    /\ variant = "C"
    /\ pc = "C_delay"
    /\ loops = 1
    /\ swRead = 5
    /\ LED_BANK = 223

\* ---- C19 ----

\* C19: in Variant A, with the ticks and the foreground both weakly fair,
\* every wait on while(!TimeOver) is left, so that P3 bit 4 is toggled again
\* and again; and the toggles never outnumber the settings of TimeOver by the
\* ISR (sets and toggles are exact up to MaxLiveCount)
C19_WaitEndsAndTogglesFollowSets ==
    /\ [](variant = "A" => toggles <= sets)
    /\ (pc = "A_wait") ~> (pc = "A_toggle")
    /\ []<>(BitOf(P3, 4) = 0)
    /\ []<>(BitOf(P3, 4) = 1)

\* two events were raised and each was answered by one toggle
C19_Witness ==
    /\ variant = "A"
    /\ sched = "live"
    /\ pc = "A_wait"
    /\ sets = 2
    /\ toggles = 2
    /\ TimeOver = 0
    /\ BitOf(P3, 4) = 1

====
